---- MODULE Spec2Model ----
(***************************************************************************)
(* The compress / decompress codec of compress-targets.                    *)
(*                                                                         *)
(* compress reads text records (position; value; policy), and writes one   *)
(* Entry per accepted record: a 2-byte move relative to the previous       *)
(* position, or 0x00 followed by the bit-packed board, then the 16-bit     *)
(* value and the pruned policy ended by 0x00.  decompress reads the        *)
(* Entries back in order, carrying its current position.                   *)
(*                                                                         *)
(* Units: a value is an integer number of thousandths, a probability an    *)
(* integer number of millionths; bytes are 0..255.  The game engine        *)
(* (fast_tak) is an external crate: it is modelled by the rules of         *)
(* movement of the game over (board, to_move), without reserves and        *)
(* without the opening rule.                                               *)
(***************************************************************************)
EXTENDS Integers, Sequences, FiniteSets, TLC

VARIABLES
    enc_pc,            \* compress: "running", "panicked" (assertion failed) or "done"
    previous_state,    \* compress.rs:80
    action_buffer,     \* compress.rs:79
    lines_read,        \* number of input lines consumed (the i of compress.rs:81)
    last,              \* what the latest loop iteration of compress did
    entries_written,   \* number of complete Entries written
    pending,           \* bytes written by compress and not yet read by decompress
    closed,            \* the byte stream has ended (no byte will follow pending)
    truncated,         \* the stream was cut in the middle of an Entry
    dec_pc,            \* decompress: "running", "panicked" or "done"
    state,             \* decompress.rs:61
    decoded,           \* the record printed by the latest iteration of decompress
    entries_decoded,   \* number of records printed by decompress
    fn_pc,             \* position of the pure-function harnesses
    fn_in,             \* input of the function under test
    fn_mid,            \* bytes written by the encoder half
    fn_out             \* value read back by the decoder half

vars == <<enc_pc, previous_state, action_buffer, lines_read, last, entries_written,
          pending, closed, truncated, dec_pc, state, decoded, entries_decoded,
          fn_pc, fn_in, fn_mid, fn_out>>

codec_vars == <<enc_pc, previous_state, action_buffer, lines_read, last, entries_written,
                pending, closed, truncated, dec_pc, state, decoded, entries_decoded>>

fn_vars == <<fn_pc, fn_in, fn_mid, fn_out>>

----------------------------------------------------------------------------
(* Bounds of the model *)

\* number of input lines compress reads
MaxRecords == 2

\* tallest stack of the positions fed to the codec
MaxHeight == 3

\* successors of the previous position offered as the next record, per kind of move
MaxBranch == 1

----------------------------------------------------------------------------
(* Program constants *)

\* size of the board (the const generic N of compress::<N> / decompress::<N>)
N == 3

\* MIN_PROBABILITY = 1e-5, in millionths
MIN_PROBABILITY == 10

\* 0xFFFF, the largest 16-bit code
MaxCode == 65535

Pieces == <<"Flat", "Wall", "Cap">>

Directions == <<"Up", "Down", "Left", "Right">>

Pow2(k) == 2 ^ k

BitOf(x, k) == (x \div Pow2(k)) % 2

Min(S) == CHOOSE x \in S : \A y \in S : x <= y

----------------------------------------------------------------------------
(* The game engine: positions and moves *)

Opposite(color) == IF color = "White" THEN "Black" ELSE "White"

EmptyStack == [piece |-> "Flat", colors |-> <<>>]

StackSize(stack) == Len(stack.colors)

\* Stack::exact(piece, colors)
StackExact(piece, colors) == [piece |-> piece, colors |-> colors]

\* Board index of Square::new(col, row), row-major, 1-based
SquareIndex(col, row) == row * N + col + 1

EmptyBoard == [i \in 1..(N * N) |-> EmptyStack]

\* Game::default()
DefaultGame == [board |-> EmptyBoard, to_move |-> "White", reversible_plies |-> 0]

\* a position built from a board that leaves White to move
FromBoardWhiteToMove(board, to_move) ==
    [board |-> board, to_move |-> "White", reversible_plies |-> 0]

\* Game::from_board_and_to_move(board, to_move, None)
FromBoardAndToMove(board, to_move) ==
    [board |-> board, to_move |-> to_move, reversible_plies |-> 0]

NoMove == [kind |-> "None", col |-> 0, row |-> 0, piece |-> "None", dir |-> "None", mask |-> 0]

PlaceMove(col, row, piece) ==
    [kind |-> "Place", col |-> col, row |-> row, piece |-> piece, dir |-> "None", mask |-> 0]

SpreadMove(col, row, dir, mask) ==
    [kind |-> "Spread", col |-> col, row |-> row, piece |-> "None", dir |-> dir, mask |-> mask]

RECURSIVE TrailingZeros(_)
TrailingZeros(m) == IF m % 2 = 1 THEN 0 ELSE 1 + TrailingZeros(m \div 2)

\* Pattern::count_pieces: pieces picked up by a spread with this mask
CountPieces(mask) == 8 - TrailingZeros(mask)

\* Pattern::drop_counts: bit 8-k of the mask is set when a drop ends at the k-th piece
RECURSIVE DropCounts(_, _, _)
DropCounts(mask, k, run) ==
    IF k > CountPieces(mask) THEN <<>>
    ELSE IF BitOf(mask, 8 - k) = 1 THEN <<run + 1>> \o DropCounts(mask, k + 1, 0)
    ELSE DropCounts(mask, k + 1, run + 1)

DCol(dir) == IF dir = "Left" THEN -1 ELSE IF dir = "Right" THEN 1 ELSE 0

DRow(dir) == IF dir = "Down" THEN -1 ELSE IF dir = "Up" THEN 1 ELSE 0

RECURSIVE SumSeq(_, _)
SumSeq(s, n) == IF n = 0 THEN 0 ELSE s[n] + SumSeq(s, n - 1)

\* whether game.play(move) succeeds
Legal(game, move) ==
    /\ move.kind \in {"Place", "Spread"}
    /\ move.col < N
    /\ move.row < N
    /\ LET from == game.board[SquareIndex(move.col, move.row)] IN
       IF move.kind = "Place" THEN StackSize(from) = 0
       ELSE /\ StackSize(from) > 0
            /\ from.colors[StackSize(from)] = game.to_move
            /\ move.mask # 0
            /\ CountPieces(move.mask) <= StackSize(from)
            /\ CountPieces(move.mask) <= N
            /\ LET drops == DropCounts(move.mask, 1, 0) IN
               \A j \in 1..Len(drops) :
                  LET c == move.col + j * DCol(move.dir)
                      r == move.row + j * DRow(move.dir) IN
                  /\ c >= 0 /\ c < N /\ r >= 0 /\ r < N
                  /\ LET target == game.board[SquareIndex(c, r)] IN
                     \/ StackSize(target) = 0
                     \/ target.piece = "Flat"
                     \/ /\ target.piece = "Wall"
                        /\ j = Len(drops)
                        /\ drops[j] = 1
                        /\ from.piece = "Cap"

\* game.play(move) on a legal move
Play(game, move) ==
    LET idx == SquareIndex(move.col, move.row)
        from == game.board[idx] IN
    IF move.kind = "Place" THEN
        [board |-> [game.board EXCEPT ![idx] = StackExact(move.piece, <<game.to_move>>)],
         to_move |-> Opposite(game.to_move),
         reversible_plies |-> 0]
    ELSE
        LET count == CountPieces(move.mask)
            drops == DropCounts(move.mask, 1, 0)
            keep == StackSize(from) - count
            Dropped(j) == SubSeq(from.colors, keep + SumSeq(drops, j - 1) + 1,
                                 keep + SumSeq(drops, j))
            Target(j) == SquareIndex(move.col + j * DCol(move.dir),
                                     move.row + j * DRow(move.dir))
            NewStack(i) ==
                IF i = idx THEN StackExact("Flat", SubSeq(from.colors, 1, keep))
                ELSE IF \E j \in 1..Len(drops) : Target(j) = i THEN
                    LET j == CHOOSE j \in 1..Len(drops) : Target(j) = i IN
                    StackExact(IF j = Len(drops) THEN from.piece ELSE "Flat",
                               game.board[i].colors \o Dropped(j))
                ELSE game.board[i]
        IN [board |-> [i \in 1..(N * N) |-> NewStack(i)],
            to_move |-> Opposite(game.to_move),
            reversible_plies |-> game.reversible_plies + 1]

\* the masks of the spreads that pick up at most N pieces, ascending
SpreadMasks == [k \in 1..(Pow2(N) - 1) |-> k * Pow2(8 - N)]

\* the placements on a square, in the order the engine generates them
PlacementsAt(col, row) == [p \in 1..3 |-> PlaceMove(col, row, Pieces[p])]

\* the spreads from a square, legal or not, in the order the engine generates them
SpreadsAt(col, row) ==
    [k \in 1..(4 * Len(SpreadMasks)) |->
        SpreadMove(col, row, Directions[((k - 1) \div Len(SpreadMasks)) + 1],
                   SpreadMasks[((k - 1) % Len(SpreadMasks)) + 1])]

\* the moves of the squares from i (0-based) on: placements on an empty square,
\* spreads of a stack of the side to move
RECURSIVE MovesFrom(_, _)
MovesFrom(game, i) ==
    IF i >= N * N THEN <<>>
    ELSE LET stack == game.board[i + 1] IN
         (IF StackSize(stack) = 0 THEN PlacementsAt(i % N, i \div N)
          ELSE IF stack.colors[StackSize(stack)] # game.to_move THEN <<>>
          ELSE SelectSeq(SpreadsAt(i % N, i \div N), LAMBDA m : Legal(game, m)))
         \o MovesFrom(game, i + 1)

\* game.possible_moves(&mut buffer) on an empty buffer
PossibleMoves(game) == MovesFrom(game, 0)

\* the equality of the spec: square contents and side to move
BoardEqual(a, b) == a.board = b.board /\ a.to_move = b.to_move

----------------------------------------------------------------------------
(* compress.rs: the writers.  Each returns the bytes it wrote and whether it   *)
(* returned normally (ok) or died on an assertion after writing them.          *)

Wrote(bytes) == [ok |-> TRUE, bytes |-> bytes]

Died(bytes) == [ok |-> FALSE, bytes |-> bytes]

\* compress.rs:175-183
LastTwo(action) ==
    IF action.kind = "Place" THEN
        (IF action.piece = "Flat" THEN 1 ELSE IF action.piece = "Wall" THEN 2 ELSE 3)
    ELSE
        (IF action.dir = "Up" THEN 0 ELSE IF action.dir = "Down" THEN 1
         ELSE IF action.dir = "Left" THEN 2 ELSE 3)

\* compress.rs:158-165
FirstByte(action) == IF action.kind = "Spread" THEN action.mask ELSE 255

\* compress.rs:167-186
\* the square bits with column and row exchanged
SecondByteColumnMajor(action) == LastTwo(action) * 64 + action.col * 8 + action.row

SecondByte(action) == LastTwo(action) * 64 + action.row * 8 + action.col

\* write_action(output, action)
write_action(action) ==
    IF action = NoMove THEN Wrote(<<0>>)
    ELSE IF action.kind = "Spread" /\ action.mask \in {0, 255} THEN Died(<<>>)
    ELSE IF ~(action.row < 8) \/ ~(action.col < 8) THEN Died(<<>>)
    ELSE Wrote(<<FirstByte(action), SecondByte(action)>>)

BoolBit(b) == IF b THEN 1 ELSE 0

\* the bits of one colour sequence, in the order stack.colors().into_iter() yields
\* them: bottom to top
ColorBits(colors) == [k \in 1..Len(colors) |-> BoolBit(colors[k] = "White")]

\* BitVec::<u8, Lsb0>::from_element(size).into_iter().take(7)
SizeBits(size) == [k \in 1..7 |-> BitOf(size % 256, k - 1)]

\* compress.rs:204-214
PieceBits(piece) ==
    IF piece = "Flat" THEN <<0>> ELSE IF piece = "Cap" THEN <<1, 1>> ELSE <<1, 0>>

\* compress.rs:199-224, the bits pushed for one square
StackBits(stack) ==
    IF StackSize(stack) = 0 THEN <<0>>
    ELSE <<1>> \o PieceBits(stack.piece)
         \o (IF StackSize(stack) > 1
             THEN <<1>> \o SizeBits(StackSize(stack)) \o ColorBits(stack.colors)
             ELSE <<0, BoolBit(stack.colors[1] = "White")>>)

RECURSIVE BoardBits(_, _)
BoardBits(board, i) ==
    IF i > N * N THEN <<>> ELSE StackBits(board[i]) \o BoardBits(board, i + 1)

\* compress.rs:196-225
StateBits(game) == <<BoolBit(game.to_move = "White")>> \o BoardBits(game.board, 1)

\* BitVec::<u8, Lsb0>::into_vec: eight bits a byte, least significant first, the
\* last byte padded with zero bits
PackLsb0(bits) ==
    [k \in 1..((Len(bits) + 7) \div 8) |->
        LET B(j) == IF 8 * (k - 1) + j + 1 <= Len(bits)
                    THEN bits[8 * (k - 1) + j + 1] * Pow2(j) ELSE 0
        IN B(0) + B(1) + B(2) + B(3) + B(4) + B(5) + B(6) + B(7)]

\* write_state(output, state): the assertion of line 217 fails before anything is
\* written, the bytes being written at line 227
write_state(game) ==
    IF \E i \in 1..(N * N) : StackSize(game.board[i]) >= 128 THEN Died(<<>>)
    ELSE Wrote(PackLsb0(StateBits(game)))

\* u16::to_le_bytes
LeBytes(code) == <<code % 256, code \div 256>>

\* compress.rs:234, value in thousandths: round(((v + 1) / 2) * 0xFFFF)
CompressValue(value) == (2 * (value + 1000) * MaxCode + 2000) \div 4000

\* write_value(output, value)
write_value(value) ==
    IF value < -1000 \/ value > 1000 THEN Died(<<>>)
    ELSE Wrote(LeBytes(CompressValue(value)))

\* compress.rs:249-253: round((ln(p) / LOG_MIN) * 0xFFFF) for the probabilities
\* (millionths) the model feeds; -1 stands for a failed assertion (ln(p) > 0)
CompressProbability(probability) ==
    CASE probability = 20 -> 61589
      [] probability = 1000 -> 39321
      [] probability = 250000 -> 7891
      [] probability = 500000 -> 3946
      [] probability = 1000000 -> 0
      [] OTHER -> -1

\* write_policy(output, policy): the loop of lines 244-258 from item k, then the
\* terminating write_action(None)
RECURSIVE WritePolicyFrom(_, _)
WritePolicyFrom(policy, k) ==
    IF k > Len(policy) THEN write_action(NoMove)
    ELSE IF policy[k].probability < MIN_PROBABILITY THEN WritePolicyFrom(policy, k + 1)
    ELSE IF CompressProbability(policy[k].probability) < 0 THEN Died(<<>>)
    ELSE LET a == write_action(policy[k].action) IN
         IF ~a.ok THEN a
         ELSE LET rest == WritePolicyFrom(policy, k + 1)
                  mine == a.bytes \o LeBytes(CompressProbability(policy[k].probability))
              IN [ok |-> rest.ok, bytes |-> mine \o rest.bytes]

write_policy(policy) == WritePolicyFrom(policy, 1)

----------------------------------------------------------------------------
(* decompress.rs: the readers.  Each reads `bytes` from offset pos (bytes      *)
(* consumed so far) and returns err = "none" with the value and the new        *)
(* offset, "eof" when bytes.next() has nothing left (unwrap / expect panics)  *)
(* or "panic" for another panic.                                               *)

ReadOk(val, pos) == [err |-> "none", val |-> val, pos |-> pos]

ReadErr(err, pos) == [err |-> err, val |-> NoMove, pos |-> pos]

\* decompress.rs:113-118 and 121-127
PieceOf(last_two_bits) ==
    IF last_two_bits = 1 THEN "Flat" ELSE IF last_two_bits = 2 THEN "Wall" ELSE "Cap"

DirectionOf(last_two_bits) == Directions[last_two_bits + 1]

\* a read_action that takes the end of the input for the byte 0x00
read_action_or_none(bytes, pos) ==
    IF pos >= Len(bytes) THEN ReadOk(NoMove, pos)
    ELSE LET pattern == bytes[pos + 1] IN
    IF pattern = 0 THEN ReadOk(NoMove, pos + 1)
    ELSE IF pos + 1 >= Len(bytes) THEN ReadOk(NoMove, pos + 1)
    ELSE LET second == bytes[pos + 2]
             col == second % 8
             row == (second \div 8) % 8
             last_two_bits == second \div 64 IN
    IF pattern = 255 THEN
        (IF last_two_bits = 0 THEN ReadErr("panic", pos + 2)
         ELSE ReadOk(PlaceMove(col, row, PieceOf(last_two_bits)), pos + 2))
    ELSE ReadOk(SpreadMove(col, row, DirectionOf(last_two_bits), pattern), pos + 2)

\* read_action(bytes)
read_action(bytes, pos) ==
    IF pos >= Len(bytes) THEN ReadErr("eof", pos)
    ELSE LET pattern == bytes[pos + 1] IN
    IF pattern = 0 THEN ReadOk(NoMove, pos + 1)
    ELSE IF pos + 1 >= Len(bytes) THEN ReadErr("eof", pos + 1)
    ELSE LET second == bytes[pos + 2]
             col == second % 8
             row == (second \div 8) % 8
             last_two_bits == second \div 64 IN
    IF pattern = 255 THEN
        (IF last_two_bits = 0 THEN ReadErr("panic", pos + 2)
         ELSE ReadOk(PlaceMove(col, row, PieceOf(last_two_bits)), pos + 2))
    ELSE ReadOk(SpreadMove(col, row, DirectionOf(last_two_bits), pattern), pos + 2)

\* BitIterator::next for the b-th bit (from 0) of a read_state that began at pos: a
\* new byte is taken from bytes every eight bits, and unwrap panics when there is none
BitAvailable(bytes, pos, b) == pos + (b \div 8) < Len(bytes)

\* decompress.rs:218, the b-th bit
BitAt(bytes, pos, b) ==
    IF pos + (b \div 8) < Len(bytes) THEN BitOf(bytes[pos + (b \div 8) + 1], b % 8) ELSE 0

\* n successive bits from bit b, in the order read
BitsAt(bytes, pos, b, n) == [k \in 1..n |-> BitAt(bytes, pos, b + k - 1)]

\* decompress.rs:165-169: size |= bit << 7; size >>= 1, seven times
RECURSIVE SizeOfBits(_, _, _)
SizeOfBits(bits, k, size) ==
    IF k > 7 THEN size
    ELSE SizeOfBits(bits, k + 1, (((size + bits[k] * 128) % 256) \div 2))

ColorOf(bit) == IF bit = 1 THEN "White" ELSE "Black"

\* the colours pushed from the last bit read to the first
PushColorsReversed(colors, bits, k) ==
    colors \o [j \in 1..(Len(bits) + 1 - k) |-> ColorOf(bits[Len(bits) + 1 - j])]

\* decompress.rs:171-183: the closure of the map reads the next bit each time it
\* is called, so .rev() changes the index it ignores and not the order of the
\* reads: the colours are pushed in the order their bits are read
\* (Colors::push puts each colour on top of those pushed before it)
PushColors(colors, bits, k) ==
    colors \o [j \in 1..(Len(bits) + 1 - k) |-> ColorOf(bits[k + j - 1])]

SquareOk(stack, b) == [err |-> "none", stack |-> stack, b |-> b]

SquareErr == [err |-> "eof", stack |-> EmptyStack, b |-> 0]

\* decompress.rs:171-184, the colours of a tall stack of `size` pieces from bit b
ReadColors(bytes, pos, b, piece, size) ==
    IF size > 0 /\ ~BitAvailable(bytes, pos, b + size - 1) THEN SquareErr
    ELSE SquareOk(StackExact(piece, PushColors(<<>>, BitsAt(bytes, pos, b, size), 1)),
                  b + size)

\* decompress.rs:163-189, from the big_stack bit at b
ReadStack(bytes, pos, b, piece) ==
    IF ~BitAvailable(bytes, pos, b) THEN SquareErr
    ELSE IF BitAt(bytes, pos, b) = 0 THEN
        (IF ~BitAvailable(bytes, pos, b + 1) THEN SquareErr
         ELSE SquareOk(StackExact(piece, <<ColorOf(BitAt(bytes, pos, b + 1))>>), b + 2))
    ELSE IF ~BitAvailable(bytes, pos, b + 7) THEN SquareErr
    ELSE ReadColors(bytes, pos, b + 8, piece, SizeOfBits(BitsAt(bytes, pos, b + 1, 7), 1, 0))

\* decompress.rs:155-162, from the blocking bit at b
ReadPiece(bytes, pos, b) ==
    IF ~BitAvailable(bytes, pos, b) THEN SquareErr
    ELSE IF BitAt(bytes, pos, b) = 0 THEN ReadStack(bytes, pos, b + 1, "Flat")
    ELSE IF ~BitAvailable(bytes, pos, b + 1) THEN SquareErr
    ELSE ReadStack(bytes, pos, b + 2,
                   IF BitAt(bytes, pos, b + 1) = 1 THEN "Cap" ELSE "Wall")

\* decompress.rs:151-189, one square read from the occupied bit at b
ReadSquare(bytes, pos, b) ==
    IF ~BitAvailable(bytes, pos, b) THEN SquareErr
    ELSE IF BitAt(bytes, pos, b) = 0 THEN SquareOk(EmptyStack, b + 1)
    ELSE ReadPiece(bytes, pos, b + 1)

\* decompress.rs:149-195, the squares from i (0-based) on; sq is square i as read
RECURSIVE ReadSquares(_, _, _, _, _)
ReadSquares(bytes, pos, i, board, sq) ==
    IF sq.err # "none" THEN [err |-> sq.err, board |-> board, b |-> sq.b]
    ELSE IF i + 1 >= N * N THEN
        [err |-> "none", board |-> [board EXCEPT ![SquareIndex(i % N, i \div N)] = sq.stack],
         b |-> sq.b]
    ELSE ReadSquares(bytes, pos, i + 1,
                     [board EXCEPT ![SquareIndex(i % N, i \div N)] = sq.stack],
                     ReadSquare(bytes, pos, sq.b))

\* a read_state that leaves the byte of the padding bits in the stream
StateReadWholeBytes(bytes, pos, to_move, squares) ==
    IF squares.err # "none" THEN ReadErr(squares.err, Len(bytes))
    ELSE ReadOk(FromBoardAndToMove(squares.board, to_move), pos + (squares.b \div 8))

\* decompress.rs:197: the bytes taken are those the BitIterator fetched
StateRead(bytes, pos, to_move, squares) ==
    IF squares.err # "none" THEN ReadErr(squares.err, Len(bytes))
    ELSE ReadOk(FromBoardAndToMove(squares.board, to_move), pos + ((squares.b + 7) \div 8))

\* read_state(bytes)
read_state(bytes, pos) ==
    IF ~BitAvailable(bytes, pos, 0) THEN ReadErr("eof", Len(bytes))
    ELSE StateRead(bytes, pos, ColorOf(BitAt(bytes, pos, 0)),
                   ReadSquares(bytes, pos, 0, EmptyBoard, ReadSquare(bytes, pos, 1)))

\* decompress.rs:228, in thousandths: (code / 0xFFFF) * 2 - 1
DecompressValue(code) == ((4000 * code + MaxCode) \div (2 * MaxCode)) - 1000

\* read_value(bytes)
read_value(bytes, pos) ==
    IF pos + 1 >= Len(bytes) THEN ReadErr("eof", Len(bytes))
    ELSE ReadOk(DecompressValue(bytes[pos + 1] + 256 * bytes[pos + 2]), pos + 2)

\* decompress.rs:240-242: exp(code * LOG_MIN / 0xFFFF) in millionths, for the codes
\* CompressProbability produces (other codes fall in the band of their neighbour)
DecompressProbability(code) ==
    IF code >= 63562 THEN 10
    ELSE IF code >= 50455 THEN 20
    ELSE IF code >= 23606 THEN 1000
    ELSE IF code >= 5919 THEN 250009
    ELSE IF code >= 1973 THEN 499965
    ELSE 1000000

\* decompress.rs:237-242, the item of action a read at a.pos, before the items `rest`
PolicyItem(bytes, a, rest) ==
    IF rest.err # "none" THEN rest
    ELSE ReadOk(<<[action |-> a.val,
                   probability |-> DecompressProbability(bytes[a.pos + 1]
                                                         + 256 * bytes[a.pos + 2])]>>
                \o rest.val, rest.pos)

\* read_policy(bytes): PolicyFrom continues after the read_action of line 234
RECURSIVE PolicyFrom(_, _)
PolicyFrom(bytes, a) ==
    IF a.err # "none" THEN ReadErr(a.err, a.pos)
    ELSE IF a.val = NoMove THEN ReadOk(<<>>, a.pos)
    ELSE IF a.pos + 1 >= Len(bytes) THEN ReadErr("eof", Len(bytes))
    ELSE PolicyItem(bytes, a, PolicyFrom(bytes, read_action(bytes, a.pos + 2)))

read_policy(bytes, pos) == PolicyFrom(bytes, read_action(bytes, pos))

----------------------------------------------------------------------------
(* lib.rs and compress.rs: one record *)

Item(action, probability) == [action |-> action, probability |-> probability]

PolicyMoves(policy) == [k \in 1..Len(policy) |-> policy[k].action]

\* a comparison of the zipped sequences that leaves the lengths out
ZippedActionsMatch(policy, real_actions) ==
    \A k \in 1..Len(policy) : k <= Len(real_actions) => policy[k].action = real_actions[k]

\* Target::actions_match_policy(&self, real_actions)
actions_match_policy(policy, real_actions) ==
    /\ Len(policy) = Len(real_actions)
    /\ \A k \in 1..Len(policy) : k <= Len(real_actions) => policy[k].action = real_actions[k]

\* compress.rs:99-106, the indices of the buffered actions that reproduce the board
\* of the record: only the board field is compared
Reproduces(previous, action, target_state) ==
    Play(previous, action).board = target_state.board

MatchingIndices(buffer, previous, target_state) ==
    {k \in 1..Len(buffer) : Legal(previous, buffer[k])
                            /\ Reproduces(previous, buffer[k], target_state)}

\* the find of compress.rs:99: the first buffered action that matches, or None
FindAction(buffer, previous, target_state) ==
    LET found == MatchingIndices(buffer, previous, target_state) IN
    IF found = {} THEN NoMove ELSE buffer[Min(found)]

\* the expect of compress.rs:101 fails on an action played before the find stops
FindPanics(buffer, previous, target_state) ==
    LET found == MatchingIndices(buffer, previous, target_state)
        stop == IF found = {} THEN Len(buffer) ELSE Min(found) IN
    \E k \in 1..stop : ~Legal(previous, buffer[k])

\* b written after a, unless a died
Then(a, b) == IF a.ok THEN [ok |-> b.ok, bytes |-> a.bytes \o b.bytes] ELSE a

\* compress.rs:120-127, the bytes of one Entry
WriteEntry(action, target) ==
    Then(Then(Then(write_action(action),
                   IF action = NoMove THEN write_state(target.tps) ELSE Wrote(<<>>)),
              write_value(target.value)),
         write_policy(target.policy))

NoTarget == [tps |-> DefaultGame, value |-> 0, policy |-> <<>>]

\* what one iteration of the loop of compress did: the record it parsed, the
\* previous position and legal moves it compared it with, the action found, the
\* bytes written
Iteration(outcome, target, action, against, moves, bytes) ==
    [outcome |-> outcome, target |-> target, action |-> action, against |-> against,
     moves |-> moves, bytes |-> bytes]

----------------------------------------------------------------------------
(* decompress.rs: one Entry *)

\* decompress.rs:79-82, the item of the completed policy for legal move a
Complete(policy, a) ==
    LET found == {k \in 1..Len(policy) : policy[k].action = a} IN
    IF found = {} THEN Item(a, MIN_PROBABILITY) ELSE policy[Min(found)]

\* decompress.rs:76-83
CompletedPolicy(game, policy) ==
    LET moves == PossibleMoves(game) IN
    [k \in 1..Len(moves) |-> Complete(policy, moves[k])]

RECURSIVE SumProbability(_, _)
SumProbability(policy, n) ==
    IF n = 0 THEN 0 ELSE policy[n].probability + SumProbability(policy, n - 1)

\* decompress.rs:84-85: each probability divided by the sum, in thousandths
Renormalize(policy) ==
    LET sum == SumProbability(policy, Len(policy)) IN
    [k \in 1..Len(policy) |->
        Item(policy[k].action, (policy[k].probability * 1000) \div sum)]

EntryErr(err) ==
    [err |-> err, state |-> DefaultGame, relative |-> FALSE, value |-> 0,
     policy |-> <<>>, pos |-> 0]

EntryAfterPolicy(relative, position, value, policy) ==
    IF policy.err # "none" THEN EntryErr(policy.err)
    ELSE [err |-> "none", state |-> position.val, relative |-> relative,
          value |-> value.val, policy |-> policy.val, pos |-> policy.pos]

\* decompress.rs:73
EntryAfterValue(bytes, relative, position, value) ==
    IF value.err # "none" THEN EntryErr(value.err)
    ELSE EntryAfterPolicy(relative, position, value, read_policy(bytes, value.pos))

\* decompress.rs:72
EntryAfterState(bytes, relative, position) ==
    IF position.err # "none" THEN EntryErr(position.err)
    ELSE EntryAfterValue(bytes, relative, position, read_value(bytes, position.pos))

\* decompress.rs:65-71
EntryAfterAction(bytes, game, action) ==
    IF action.err # "none" THEN EntryErr(action.err)
    ELSE IF action.val = NoMove THEN
        EntryAfterState(bytes, FALSE, read_state(bytes, action.pos))
    ELSE IF ~Legal(game, action.val) THEN EntryErr("panic")
    ELSE EntryAfterState(bytes, TRUE, ReadOk(Play(game, action.val), action.pos))

\* decompress.rs:64-73, one Entry read from the front of bytes with the current
\* position game
ReadEntry(bytes, game) == EntryAfterAction(bytes, game, read_action(bytes, 0))

Printed(before, entry) ==
    LET completed == CompletedPolicy(entry.state, entry.policy) IN
    [present |-> TRUE, before |-> before, tps |-> entry.state, relative |-> entry.relative,
     value |-> entry.value, read_policy |-> entry.policy,
     completed_policy |-> completed, policy |-> Renormalize(completed),
     consumed |-> entry.pos]

NothingPrinted ==
    [present |-> FALSE, before |-> DefaultGame, tps |-> DefaultGame, relative |-> FALSE,
     value |-> 0, read_policy |-> <<>>, completed_policy |-> <<>>, policy |-> <<>>,
     consumed |-> 0]

----------------------------------------------------------------------------
(* The input of compress: the records a line can parse to *)

\* colours of the tall stack, bottom to top: one Black piece under White ones
TallColors == [k \in 1..MaxHeight |-> IF k = 1 THEN "Black" ELSE "White"]

\* a middle-game position: a tall White stack under a capstone in the centre,
\* Black walls beside it, White to move
TallGame ==
    [board |-> [EmptyBoard EXCEPT ![SquareIndex(1, 1)] = StackExact("Cap", TallColors),
                                  ![SquareIndex(0, 0)] = StackExact("Wall", <<"Black">>),
                                  ![SquareIndex(2, 1)] = StackExact("Wall", <<"Black">>)],
     to_move |-> "White",
     reversible_plies |-> 0]

\* a position with Black to move: a stack of two, White under Black, in a corner
\* and a White flat in the middle
OtherGame ==
    [board |-> [EmptyBoard EXCEPT ![SquareIndex(0, 2)] = StackExact("Flat", <<"White", "Black">>),
                                  ![SquareIndex(1, 1)] = StackExact("Flat", <<"White">>)],
     to_move |-> "Black",
     reversible_plies |-> 0]

OfKind(moves, kind) == SelectSeq(moves, LAMBDA m : m.kind = kind)

FirstOf(s, n) == {s[k] : k \in 1..(IF Len(s) < n THEN Len(s) ELSE n)}

\* the moves whose result is offered as the next record
SampleOf(moves) ==
    FirstOf(OfKind(moves, "Place"), MaxBranch) \cup FirstOf(OfKind(moves, "Spread"), MaxBranch)

SampleMoves(game) == SampleOf(PossibleMoves(game))

\* Game::from(tps): the position notation holds no reversibility counter
FromTps(board, to_move) == [board |-> board, to_move |-> to_move, reversible_plies |-> 0]

Successors(game) ==
    {FromTps(Play(game, m).board, Play(game, m).to_move) : m \in SampleMoves(game)}

\* the same squares with the other side to move
Flipped(game) == FromTps(game.board, Opposite(game.to_move))

\* the positions a record read after `previous` may hold: the start of a game, two
\* middle-game positions, the next position of the same game, and that position
\* with the other side to move
InputPositions(previous) ==
    {DefaultGame, TallGame, OtherGame} \cup Successors(previous)
    \cup {Flipped(g) : g \in Successors(previous)}

\* probabilities given to the moves of a policy: those listed, then 5 for every
\* further move; 5 is below MIN_PROBABILITY, 2000000 is above 1
WithProbabilities(moves, given) ==
    [k \in 1..Len(moves) |-> Item(moves[k], IF k <= Len(given) THEN given[k] ELSE 5)]

\* value and probabilities of the records whose policy lists the legal moves
Variations ==
    { [value |-> 250,  given |-> <<5, 500000, 5, 20>>],
      [value |-> 1500, given |-> <<1000000>>],
      [value |-> 0,    given |-> <<250000, 5, 2000000>>] }

SwapFirstTwo(moves) ==
    IF Len(moves) < 2 THEN moves
    ELSE [k \in 1..Len(moves) |-> IF k = 1 THEN moves[2] ELSE IF k = 2 THEN moves[1]
                                  ELSE moves[k]]

\* move lists that differ from the legal moves: in order, in length (shorter,
\* longer), in one element
WrongMoves(moves) ==
    { SwapFirstTwo(moves),
      SubSeq(moves, 1, Len(moves) - 1),
      Append(moves, moves[1]),
      [moves EXCEPT ![Len(moves)] = SpreadMove(0, 0, "Up", 128)] } \ {moves}

\* the records with position g whose policy lists `moves`
TargetsAt(g, moves) ==
    {[tps |-> g, value |-> v.value, policy |-> WithProbabilities(moves, v.given)] :
        v \in Variations}
    \cup {[tps |-> g, value |-> 0, policy |-> WithProbabilities(w, <<500000, 5, 20>>)] :
        w \in WrongMoves(moves)}

\* the records a line parses to (FromStr for Target, lib.rs:39-68)
Targets(previous) ==
    UNION {TargetsAt(g, PossibleMoves(g)) : g \in InputPositions(previous)}

----------------------------------------------------------------------------
(* The actions *)

\* the bytes reach decompress while it runs
ToReader(bytes) == IF dec_pc = "running" THEN pending \o bytes ELSE pending

CanReadLine ==
    /\ enc_pc = "running"
    /\ ~closed
    /\ lines_read < MaxRecords
    /\ (pending = <<>> \/ dec_pc # "running")

\* compress.rs:82-95: a line that cannot be read or parsed is skipped
CompressSkip ==
    /\ CanReadLine
    /\ lines_read' = lines_read + 1
    /\ last' = Iteration("malformed", NoTarget, NoMove, previous_state, action_buffer, <<>>)
    /\ UNCHANGED <<enc_pc, previous_state, action_buffer, entries_written, pending, closed,
                   truncated, dec_pc, state, decoded, entries_decoded>>
    /\ UNCHANGED fn_vars

\* a refill that keeps the moves the find did not reach
RefillKeepingRest(buffer, found, legal) ==
    (IF found = {} THEN <<>> ELSE SubSeq(buffer, Min(found) + 1, Len(buffer))) \o legal

\* compress.rs:99 and 109: the Drain of action_buffer.drain(..) removes the whole
\* range when it is dropped, the moves the find did not reach included, and
\* possible_moves then fills the empty buffer; found is the set of matching indices
Refill(buffer, found, legal) ==
    SubSeq(buffer, Len(buffer) + 1, Len(buffer)) \o legal

\* compress.rs:96-127: one iteration of the loop on a line that parses to target;
\* action and panics are the outcome of the find of line 99, legal the refilled
\* action buffer of line 109
CompressTarget(target, action, panics, legal) ==
    LET entry == WriteEntry(action, target) IN
    IF panics THEN
        /\ enc_pc' = "panicked"
        /\ closed' = TRUE
        /\ last' = Iteration("died", target, NoMove, previous_state, action_buffer, <<>>)
        /\ UNCHANGED <<previous_state, action_buffer, entries_written, pending>>
    ELSE
        /\ action_buffer' = Refill(action_buffer,
                                    MatchingIndices(action_buffer, previous_state, target.tps),
                                    legal)
        /\ previous_state' = target.tps
        /\ IF ~actions_match_policy(target.policy, legal) THEN
               /\ last' = Iteration("rejected", target, action, previous_state, action_buffer, <<>>)
               /\ UNCHANGED <<enc_pc, entries_written, pending, closed>>
           ELSE
               /\ last' = Iteration(IF entry.ok THEN "written" ELSE "died", target, action,
                                    previous_state, action_buffer, entry.bytes)
               /\ pending' = ToReader(entry.bytes)
               /\ enc_pc' = IF entry.ok THEN "running" ELSE "panicked"
               /\ closed' = ~entry.ok
               /\ entries_written' = IF entry.ok THEN entries_written + 1
                                     ELSE entries_written

Compress ==
    /\ CanReadLine
    /\ \E g \in InputPositions(previous_state) :
          LET action == FindAction(action_buffer, previous_state, g)
              panics == FindPanics(action_buffer, previous_state, g)
              legal == PossibleMoves(g) IN
          \E target \in TargetsAt(g, legal) : CompressTarget(target, action, panics, legal)
    /\ lines_read' = lines_read + 1
    /\ UNCHANGED <<truncated, dec_pc, state, decoded, entries_decoded>>
    /\ UNCHANGED fn_vars

\* compress.rs:81 and 144: the input has no more lines
CompressEnd ==
    /\ enc_pc = "running"
    /\ ~closed
    /\ enc_pc' = "done"
    /\ closed' = TRUE
    /\ UNCHANGED <<previous_state, action_buffer, lines_read, last, entries_written,
                   pending, truncated, dec_pc, state, decoded, entries_decoded>>
    /\ UNCHANGED fn_vars

\* the file given to decompress ends in the middle of the Entry it is about to read
Truncate ==
    /\ ~closed
    /\ dec_pc = "running"
    /\ last.outcome = "written"
    /\ Len(pending) > 1
    /\ \E n \in 1..(Len(pending) - 1) : pending' = SubSeq(pending, 1, n)
    /\ closed' = TRUE
    /\ truncated' = TRUE
    /\ enc_pc' = "done"
    /\ UNCHANGED <<previous_state, action_buffer, lines_read, last, entries_written,
                   dec_pc, state, decoded, entries_decoded>>
    /\ UNCHANGED fn_vars

\* decompress.rs:63-99: one iteration of the loop
Decompress ==
    /\ dec_pc = "running"
    /\ pending # <<>>
    /\ LET entry == ReadEntry(pending, state) IN
       /\ entry.err = "eof" => closed
       /\ IF entry.err = "none" THEN
              /\ state' = entry.state
              /\ decoded' = Printed(state, entry)
              /\ entries_decoded' = entries_decoded + 1
              /\ pending' = SubSeq(pending, entry.pos + 1, Len(pending))
              /\ UNCHANGED dec_pc
          ELSE
              /\ dec_pc' = "panicked"
              /\ decoded' = NothingPrinted
              /\ UNCHANGED <<state, entries_decoded, pending>>
    /\ UNCHANGED <<enc_pc, previous_state, action_buffer, lines_read, last,
                   entries_written, closed, truncated>>
    /\ UNCHANGED fn_vars

\* decompress.rs:63: bytes.peek() is None
DecompressEnd ==
    /\ dec_pc = "running"
    /\ pending = <<>>
    /\ closed
    /\ dec_pc' = "done"
    /\ UNCHANGED <<enc_pc, previous_state, action_buffer, lines_read, last,
                   entries_written, pending, closed, truncated, state, decoded,
                   entries_decoded>>
    /\ UNCHANGED fn_vars

FnIdle == fn_pc = "idle" /\ fn_in = NoMove /\ fn_mid = <<>> /\ fn_out = NoMove

\* compress.rs:76-80 and decompress.rs:58-61
CodecInit ==
    /\ enc_pc = "running"
    /\ previous_state = DefaultGame
    /\ action_buffer = <<>>
    /\ lines_read = 0
    /\ last = Iteration("none", NoTarget, NoMove, DefaultGame, <<>>, <<>>)
    /\ entries_written = 0
    /\ pending = <<>>
    /\ closed = FALSE
    /\ truncated = FALSE
    /\ dec_pc = "running"
    /\ state = DefaultGame
    /\ decoded = NothingPrinted
    /\ entries_decoded = 0

Init == CodecInit /\ FnIdle

Next ==
    \/ CompressSkip
    \/ Compress
    \/ CompressEnd
    \/ Truncate
    \/ Decompress
    \/ DecompressEnd

Spec == Init /\ [][Next]_vars

----------------------------------------------------------------------------
(* write_action and read_action on every move *)

\* the moves given to write_action: None, and every placement and spread with
\* coordinates up to 8 and any mask byte
ActionInputs ==
    {NoMove}
    \cup {PlaceMove(c, r, Pieces[p]) : c \in 0..8, r \in 0..8, p \in 1..3}
    \cup {SpreadMove(c, r, Directions[d], m) : c \in 0..8, r \in 0..8, d \in 1..4,
                                               m \in 0..255}

InitAction ==
    /\ CodecInit
    /\ fn_pc = "start"
    /\ fn_in \in ActionInputs
    /\ fn_mid = Wrote(<<>>)
    /\ fn_out = ReadErr("none", 0)

\* write_action(output, fn_in)
WriteActionStep ==
    /\ fn_pc = "start"
    /\ fn_mid' = write_action(fn_in)
    /\ fn_pc' = IF write_action(fn_in).ok THEN "written" ELSE "died"
    /\ UNCHANGED <<fn_in, fn_out>>
    /\ UNCHANGED codec_vars

\* read_action on the bytes written
ReadActionStep ==
    /\ fn_pc = "written"
    /\ fn_out' = read_action(fn_mid.bytes, 0)
    /\ fn_pc' = "read"
    /\ UNCHANGED <<fn_in, fn_mid>>
    /\ UNCHANGED codec_vars

NextAction == WriteActionStep \/ ReadActionStep

SpecAction == InitAction /\ [][NextAction]_vars

----------------------------------------------------------------------------
(* write_state and read_state on positions *)

\* the colour sequences of n pieces, bottom to top
RECURSIVE ColorSeqs(_)
ColorSeqs(n) ==
    IF n = 0 THEN {<<>>}
    ELSE {Append(c, x) : c \in ColorSeqs(n - 1), x \in {"White", "Black"}}

\* every stack of 1..MaxHeight pieces
AllStacks ==
    {StackExact(Pieces[p], c) : p \in 1..3, c \in UNION {ColorSeqs(n) : n \in 1..MaxHeight}}

\* stacks at the limit of the seven size bits: 127 pieces, and 128, which the
\* assertion of compress.rs:217 refuses; the colours alternate from Black
LimitStacks ==
    {StackExact(Pieces[p], [k \in 1..h |-> IF k % 2 = 1 THEN "Black" ELSE "White"]) :
        p \in 1..3, h \in {127, 128}}

\* nothing, or one piece
SmallStacks ==
    {EmptyStack} \cup {StackExact(Pieces[p], <<x>>) : p \in 1..3, x \in {"White", "Black"}}

\* the boards given to write_state: a stack on one square and nothing or one piece
\* on the next square, or the same stack of up to MaxHeight on every square
StateBoards ==
    {[EmptyBoard EXCEPT ![i] = s, ![(i % (N * N)) + 1] = t] :
        i \in 1..(N * N), s \in AllStacks \cup LimitStacks, t \in SmallStacks}
    \cup {[i \in 1..(N * N) |-> s] : s \in AllStacks}
    \cup {EmptyBoard}

InitState ==
    /\ CodecInit
    /\ fn_pc = "start"
    /\ fn_in \in {FromTps(b, c) : b \in StateBoards, c \in {"White", "Black"}}
    /\ fn_mid = Wrote(<<>>)
    /\ fn_out = ReadErr("none", 0)

\* write_state(output, fn_in)
WriteStateStep ==
    /\ fn_pc = "start"
    /\ fn_mid' = write_state(fn_in)
    /\ fn_pc' = IF write_state(fn_in).ok THEN "written" ELSE "died"
    /\ UNCHANGED <<fn_in, fn_out>>
    /\ UNCHANGED codec_vars

\* read_state on the bytes written
ReadStateStep ==
    /\ fn_pc = "written"
    /\ fn_out' = read_state(fn_mid.bytes, 0)
    /\ fn_pc' = "read"
    /\ UNCHANGED <<fn_in, fn_mid>>
    /\ UNCHANGED codec_vars

NextState == WriteStateStep \/ ReadStateStep

SpecState == InitState /\ [][NextState]_vars

----------------------------------------------------------------------------
(* Properties *)

\* the record of the latest iteration of compress was written whole
Written == last.outcome = "written"

\* the latest iteration of compress parsed its line
Parsed == last.outcome \in {"rejected", "written", "died"}

\* decompress has dealt with the Entry of the latest iteration: it read it, or it
\* had died
Handled == Written /\ ~truncated /\ (pending = <<>> \/ dec_pc = "panicked")

\* the record decompress printed last is the one read from the Entry of the latest
\* iteration of compress
JustDecoded ==
    /\ Written
    /\ decoded.present
    /\ entries_decoded = entries_written
    /\ pending = <<>>

\* the moves compress compared the record with that give its position, squares and
\* side to move
BoardEqualMoves ==
    {k \in 1..Len(last.moves) :
        /\ Legal(last.against, last.moves[k])
        /\ BoardEqual(Play(last.against, last.moves[k]), last.target.tps)}

\* the moves that give the squares of the record, whatever the side to move
SameSquaresMoves ==
    {k \in 1..Len(last.moves) :
        /\ Legal(last.against, last.moves[k])
        /\ Play(last.against, last.moves[k]).board = last.target.tps.board}

ValueBytes == LeBytes(CompressValue(last.target.value))

\* C1: every Entry compress writes is decoded, in its turn, to a position with the
\* squares and the side to move of the record it was written for.
C1_DecodedPositionMatchesRecord ==
    Handled =>
        /\ dec_pc # "panicked"
        /\ decoded.present
        /\ entries_decoded = entries_written
        /\ BoardEqual(decoded.tps, last.target.tps)

\* C2: a record is written as a relative Entry exactly when one of the previous
\* legal moves gives a position with the squares and the side to move of the
\* record's; the Entry then holds the first such move and no board bits.
C2_RelativeIffBoardEqualMove ==
    Written =>
        /\ (last.action # NoMove) <=> (BoardEqualMoves # {})
        /\ last.action # NoMove =>
              /\ last.action = last.moves[Min(BoardEqualMoves)]
              /\ SubSeq(last.bytes, 1, 4)
                 = <<FirstByte(last.action), SecondByte(last.action)>> \o ValueBytes

C6_PrintedPolicyIsLegalMoves ==
    /\ decoded.present => PolicyMoves(decoded.policy) = PossibleMoves(decoded.tps)
    /\ JustDecoded => PolicyMoves(decoded.policy) = PolicyMoves(last.target.policy)

\* the first half of C6, which holds of every printed record
PrintedPolicyIsLegalMovesOfDecoder ==
    decoded.present =>
        /\ PolicyMoves(decoded.policy) = PossibleMoves(decoded.tps)
        /\ PolicyMoves(decoded.completed_policy) = PossibleMoves(decoded.tps)

Kept(policy) == SelectSeq(policy, LAMBDA item : item.probability >= MIN_PROBABILITY)

RECURSIVE ItemBytes(_, _)
ItemBytes(items, k) ==
    IF k > Len(items) THEN <<0>>
    ELSE <<FirstByte(items[k].action), SecondByte(items[k].action)>>
         \o LeBytes(CompressProbability(items[k].probability))
         \o ItemBytes(items, k + 1)

\* the bytes of the policy at the end of the Entry of the latest iteration
PolicyBytes ==
    LET n == 4 * Len(Kept(last.target.policy)) + 1 IN
    SubSeq(last.bytes, Len(last.bytes) - n + 1, Len(last.bytes))

\* the moves of the written policy are all in the completed policy, the pruned ones
\* with MIN_PROBABILITY, the others with the probability of their own code
CompletedFromOwnCodes ==
    \A k \in 1..Len(last.target.policy) :
        LET item == last.target.policy[k] IN
        \E j \in 1..Len(decoded.completed_policy) :
            decoded.completed_policy[j] =
                Item(item.action,
                     IF item.probability < MIN_PROBABILITY THEN MIN_PROBABILITY
                     ELSE DecompressProbability(CompressProbability(item.probability)))

\* C7: the Entry holds four bytes for each policy item of probability at least
\* MIN_PROBABILITY, in policy order, and none for the others; decoded, the pruned
\* moves have MIN_PROBABILITY and the others the probability of their own code.
C7_PrunedAndKeptProbabilities ==
    /\ Written => PolicyBytes = ItemBytes(Kept(last.target.policy), 1)
    /\ JustDecoded => CompletedFromOwnCodes

\* the first half of C7, which holds of every written record
WrittenPolicyIsKeptItems == Written => PolicyBytes = ItemBytes(Kept(last.target.policy), 1)

\* C11: after a record that parses, written or rejected, previous_state is its
\* position and action_buffer the legal moves of that position and nothing else;
\* a line that does not parse leaves both as they were.
C11_PreviousRefreshedByParsedRecord ==
    /\ last.outcome \in {"written", "rejected"} =>
          /\ previous_state = last.target.tps
          /\ action_buffer = PossibleMoves(last.target.tps)
    /\ last.outcome = "malformed" =>
          /\ previous_state = last.against
          /\ action_buffer = last.moves

\* a record was rejected whose position is the result of a move of the buffer that
\* was not the last one, so that the find left moves unread
C11_Witness ==
    /\ last.outcome = "rejected"
    /\ last.action # NoMove
    /\ last.action # last.moves[Len(last.moves)]
    /\ last.against # last.target.tps
    /\ action_buffer = PossibleMoves(last.target.tps)
    /\ action_buffer # last.moves

\* C8: a parsed record is rejected, nothing written and compress going on, exactly
\* when the moves of its policy are not the legal moves of its position, in order.
C8_RejectedIffPolicyMismatch ==
    Parsed =>
        /\ (last.outcome = "rejected")
           <=> (PolicyMoves(last.target.policy) # PossibleMoves(last.target.tps))
        /\ last.outcome = "rejected" =>
              /\ last.bytes = <<>>
              /\ dec_pc = "running" => pending = <<>>
              /\ enc_pc # "panicked"

\* a record was rejected whose policy has the right number of moves
C8_Witness ==
    /\ last.outcome = "rejected"
    /\ Len(last.target.policy) = Len(PossibleMoves(last.target.tps))
    /\ lines_read = 1
    /\ entries_written = 0
    /\ enc_pc = "running"

\* C9: the first Entry of the stream is absolute.
C9_FirstEntryAbsolute ==
    (Written /\ entries_written = 1) => (last.action = NoMove /\ last.bytes[1] = 0)

\* the stream ends in the middle of an Entry: it was cut, or compress died after
\* writing a part of the Entry
EndsMidEntry == truncated \/ (last.outcome = "died" /\ last.bytes # <<>>)

\* the Entries of the stream that are whole
WholeEntries == IF truncated THEN entries_written - 1 ELSE entries_written

\* C10: when the stream ends in the middle of an Entry, decompress dies on it and
\* prints nothing for it: what it printed comes from whole Entries.
C10_TruncatedStreamIsFatal ==
    EndsMidEntry =>
        /\ dec_pc # "done"
        /\ entries_decoded <= WholeEntries
        /\ dec_pc = "panicked" => ~decoded.present
        /\ dec_pc = "running" => pending # <<>>

\* decompress died on an absolute Entry cut inside its board bits
C10_Witness ==
    /\ truncated
    /\ dec_pc = "panicked"
    /\ last.action = NoMove
    /\ Len(pending) = 2
    /\ entries_decoded = entries_written - 1

\* C12: at every boundary between records and when compress has stopped, the bytes
\* written are whole Entries: an iteration that does not write its Entry whole, a
\* failed assertion included, writes no byte of it.
C12_OnlyWholeEntriesWritten ==
    /\ last.outcome # "written" => last.bytes = <<>>
    /\ enc_pc = "panicked" => last.bytes = <<>>

\* the bits of one square: 1 when empty, else the occupied bit, 1 or 2 piece bits,
\* the tall-stack bit and 1 colour bit, or 7 height bits and a colour bit a piece
StackBitCount(stack) ==
    IF StackSize(stack) = 0 THEN 1
    ELSE 1 + (IF stack.piece = "Flat" THEN 1 ELSE 2) + 1
         + (IF StackSize(stack) = 1 THEN 1 ELSE 7 + StackSize(stack))

RECURSIVE BoardBitCount(_, _)
BoardBitCount(board, i) ==
    IF i > N * N THEN 0 ELSE StackBitCount(board[i]) + BoardBitCount(board, i + 1)

\* the side-to-move bit and the bits of the squares of the latest record
RecordBitCount == 1 + BoardBitCount(last.target.tps.board, 1)

\* the bytes of the Entry of the latest record: the action or 0x00 and the board
\* bytes, the value, four bytes a kept policy item, 0x00
EntryLength ==
    (IF last.action = NoMove THEN 1 + ((RecordBitCount + 7) \div 8) ELSE 2)
    + 2 + 4 * Len(Kept(last.target.policy)) + 1

\* C13: decompress takes from the stream exactly the bytes of each Entry it reads:
\* the board bits written and their padding, two bytes of value, four bytes a
\* policy item and the final 0x00; between Entries it is at the start of an Entry,
\* and it dies on a whole Entry only in state.play, never for want of a byte.
C13_DecoderConsumesWholeEntries ==
    /\ Written => Len(last.bytes) = EntryLength
    /\ (dec_pc = "running" /\ ~truncated) => pending \in {<<>>, last.bytes}
    /\ (Written /\ ~truncated /\ decoded.present /\ entries_decoded = entries_written) =>
          /\ decoded.consumed = Len(last.bytes)
          /\ pending = <<>>
    /\ (Written /\ ~truncated /\ pending = last.bytes /\ dec_pc = "panicked") =>
          /\ last.action # NoMove
          /\ ~Legal(state, last.action)

\* the second Entry, absolute, of a position with a stack of three whose board bits
\* do not fill their last byte, was read whole
C13_Witness ==
    /\ JustDecoded
    /\ entries_decoded = 2
    /\ last.action = NoMove
    /\ last.target.tps = TallGame
    /\ RecordBitCount % 8 # 0
    /\ Kept(last.target.policy) # <<>>
    /\ decoded.consumed = EntryLength

----------------------------------------------------------------------------
(* Properties of the functions *)

ActionRefused(m) ==
    /\ m # NoMove
    /\ \/ m.row >= 8
       \/ m.col >= 8
       \/ m.kind = "Spread" /\ m.mask \in {0, 255}

\* C5: read_action on the bytes of write_action gives the move written; a move is
\* two bytes, the first not 0x00, None the single byte 0x00; write_action dies on a
\* row or column of 8 or more.
C5_ActionRoundTrip ==
    /\ (fn_pc = "died") => ActionRefused(fn_in)
    /\ (fn_pc # "start" /\ fn_in # NoMove /\ (fn_in.row >= 8 \/ fn_in.col >= 8))
          => (fn_pc = "died" /\ fn_mid.bytes = <<>>)
    /\ (fn_pc \in {"written", "read"}) =>
          /\ ~ActionRefused(fn_in)
          /\ fn_in = NoMove => fn_mid.bytes = <<0>>
          /\ fn_in # NoMove => (Len(fn_mid.bytes) = 2 /\ fn_mid.bytes[1] # 0)
    /\ (fn_pc = "read") =>
          /\ fn_out.err = "none"
          /\ fn_out.val = fn_in
          /\ fn_out.pos = Len(fn_mid.bytes)

\* a spread from the last square of an 8 x 8 board was read back
C5_Witness ==
    /\ fn_pc = "read"
    /\ fn_in.kind = "Spread"
    /\ fn_in.col = 7
    /\ fn_in.row = 7
    /\ fn_in.dir = "Left"
    /\ fn_out.val = fn_in

====
